---- MODULE Spec2Model ----
(***************************************************************************)
(* Model of app.py (KV Glass Damage Reporter): the label-text extraction   *)
(* engine (repair_prefix, similarity, extract_type_components,             *)
(* extract_size, extract_tag, extract_po, fed by ocr_raw) and the          *)
(* Streamlit session state (batch, added_keys, task_queue) across script   *)
(* runs.                                                                   *)
(*                                                                         *)
(* Python strings are TLA+ strings; a character is a string of length 1    *)
(* (Ch(s, i)).  Each regular expression of the source is modelled by the   *)
(* match the backtracking engine finds: leftmost start, greedy             *)
(* quantifiers.                                                            *)
(***************************************************************************)
EXTENDS Integers, Sequences, FiniteSets, TLC

VARIABLES
    \* prefix repairer on its own
    rpc, rin, rout1, rout2,
    \* one iteration of the Send Batch loop (app.py 336-341)
    pc, raw, ocr_ok, thickness, glass_type, tint, size, tag, po,
    \* st.session_state and the history of the script runs
    batch, added_keys, task_queue, widgets, handed, next_id, last_run

varsRepair == <<rpc, rin, rout1, rout2>>
varsExtract == <<pc, raw, ocr_ok, thickness, glass_type, tint, size, tag, po>>
varsSession == <<batch, added_keys, task_queue, widgets, handed, next_id, last_run>>
vars == <<varsRepair, varsExtract, varsSession>>

----------------------------------------------------------------------------
(* Characters and character classes of Python's re (str patterns).         *)

Digits == {"0", "1", "2", "3", "4", "5", "6", "7", "8", "9"}

LowerAlpha == "abcdefghijklmnopqrstuvwxyz"

UpperAlpha == "ABCDEFGHIJKLMNOPQRSTUVWXYZ"

Ch(s, i) == IF i >= 1 /\ i <= Len(s) THEN SubSeq(s, i, i) ELSE ""

LowerLetters == {Ch(LowerAlpha, i) : i \in 1..Len(LowerAlpha)}

UpperLetters == {Ch(UpperAlpha, i) : i \in 1..Len(UpperAlpha)}

\* \s
Whitespace == {" ", "\t", "\n", "\r", "\f"}

\* \w
IsWord(c) == c \in Digits \cup LowerLetters \cup UpperLetters \cup {"_"}

\* str.upper() and str.lower() of one character
UpperCh(c) ==
    IF c \in LowerLetters
    THEN Ch(UpperAlpha, CHOOSE i \in 1..Len(LowerAlpha) : Ch(LowerAlpha, i) = c)
    ELSE c

LowerCh(c) ==
    IF c \in UpperLetters
    THEN Ch(LowerAlpha, CHOOSE i \in 1..Len(UpperAlpha) : Ch(UpperAlpha, i) = c)
    ELSE c

\* the characters i..j of s, each replaced as kind says (by halves, to keep
\* the evaluation shallow)
MapCh(c, kind) ==
    CASE kind = "upper" -> UpperCh(c)
      [] kind = "lower" -> LowerCh(c)
      [] kind = "no_cr" -> IF c = "\r" THEN "" ELSE c
      [] OTHER          -> IF c = "\n" THEN " " ELSE c

RECURSIVE MapRange(_, _, _, _)
MapRange(s, i, j, kind) ==
    IF i > j THEN ""
    ELSE IF i = j THEN MapCh(Ch(s, i), kind)
    ELSE LET mid == (i + j) \div 2
         IN  MapRange(s, i, mid, kind) \o MapRange(s, mid + 1, j, kind)

Upper(s) == MapRange(s, 1, Len(s), "upper")

Lower(s) == MapRange(s, 1, Len(s), "lower")

\* first index >= i whose character is not in class (Len(s)+1 if none):
\* where a greedy class* that starts at i stops
SkipClass(s, i, class) ==
    IF i > Len(s) THEN i
    ELSE CHOOSE j \in i..(Len(s) + 1) :
            /\ \A k \in i..(j - 1) : Ch(s, k) \in class
            /\ Ch(s, j) \notin class

\* s[i:j] of the characters i..j-1 (1-based, j exclusive)
Slice(s, i, j) ==
    IF j > i /\ i <= Len(s)
    THEN SubSeq(s, i, IF j - 1 <= Len(s) THEN j - 1 ELSE Len(s))
    ELSE ""

\* index of the first occurrence of sub in s at or after i, 0 if none (str.find)
FindFrom(s, sub, i) ==
    LET hits == {k \in i..(Len(s) - Len(sub) + 1) : SubSeq(s, k, k + Len(sub) - 1) = sub}
    IN  IF hits = {} THEN 0 ELSE CHOOSE k \in hits : \A h \in hits : k <= h

Contains(s, sub) == FindFrom(s, sub, 1) # 0

\* str.strip()
\* the index of the last character of s[1..j] that is not whitespace, 0 if none
RStripEnd(s, j) ==
    LET keep == {k \in 1..j : Ch(s, k) \notin Whitespace}
    IN  IF keep = {} THEN 0 ELSE CHOOSE k \in keep : \A h \in keep : h <= k

Strip(s) ==
    LET i == SkipClass(s, 1, Whitespace)
        j == RStripEnd(s, Len(s))
    IN  Slice(s, i, j + 1)

----------------------------------------------------------------------------
(* repair_prefix (app.py 86-95).                                           *)

\* the separators of the third pattern of each family: [-/:,_ ]
SepChars == {"-", "/", ":", ",", "_", " "}

\* patterns.items() in insertion order: digit a, digit b, the class between
\* them and how many of it at least; every replacement is a "." b
PrefixPatterns ==
    << [a |-> "3", b |-> "9", sep |-> Whitespace, min |-> 0],
       [a |-> "3", b |-> "9", sep |-> {},         min |-> 0],
       [a |-> "3", b |-> "9", sep |-> SepChars,   min |-> 1],
       [a |-> "3", b |-> "1", sep |-> Whitespace, min |-> 0],
       [a |-> "3", b |-> "1", sep |-> {},         min |-> 0],
       [a |-> "3", b |-> "1", sep |-> SepChars,   min |-> 1],
       [a |-> "4", b |-> "7", sep |-> Whitespace, min |-> 0],
       [a |-> "4", b |-> "7", sep |-> {},         min |-> 0],
       [a |-> "4", b |-> "7", sep |-> SepChars,   min |-> 1],
       [a |-> "5", b |-> "7", sep |-> Whitespace, min |-> 0],
       [a |-> "5", b |-> "7", sep |-> {},         min |-> 0],
       [a |-> "5", b |-> "7", sep |-> SepChars,   min |-> 1] >>

\* a bug: the patterns without their \b anchors
PrefixMatchEndUnanchored(t, i, p) ==
    IF Ch(t, i) = p.a
    THEN LET j == SkipClass(t, i + 1, p.sep)
         IN  IF j - (i + 1) >= p.min /\ Ch(t, j) = p.b THEN j ELSE 0
    ELSE 0

\* \b a sep{min,} b \b matched at i: the index of the matched b, 0 if no match.
\* b is not in sep, so the greedy class stops exactly before it.
PrefixMatchEnd(t, i, p) ==
    IF Ch(t, i) = p.a /\ ~IsWord(Ch(t, i - 1))
    THEN LET j == SkipClass(t, i + 1, p.sep)
         IN  IF j - (i + 1) >= p.min /\ Ch(t, j) = p.b /\ ~IsWord(Ch(t, j + 1))
             THEN j ELSE 0
    ELSE 0

\* the text from i on with the matches replaced, at most count of them
\* (count < 0: all), one step per match
RECURSIVE SubPrefixFrom(_, _, _, _)
SubPrefixFrom(t, i, p, count) ==
    LET hits == {k \in i..Len(t) : PrefixMatchEnd(t, k, p) # 0}
    IN  IF count = 0 \/ hits = {} THEN Slice(t, i, Len(t) + 1)
        ELSE LET k == CHOOSE k \in hits : \A h \in hits : k <= h
             IN  Slice(t, i, k) \o p.a \o "." \o p.b
                   \o SubPrefixFrom(t, PrefixMatchEnd(t, k, p) + 1, p,
                                    IF count > 0 THEN count - 1 ELSE count)

\* a bug: re.sub(pat, rep, t, count=1)
ReSubPrefixFirstOnly(t, p) == SubPrefixFrom(t, 1, p, 1)

\* re.sub(pat, rep, t): every non-overlapping match, left to right
ReSubPrefix(t, p) == SubPrefixFrom(t, 1, p, -1)

RECURSIVE RepairFrom(_, _)
RepairFrom(t, k) ==
    IF k > Len(PrefixPatterns) THEN t
    ELSE RepairFrom(ReSubPrefix(t, PrefixPatterns[k]), k + 1)

repair_prefix(t) == RepairFrom(t, 1)

----------------------------------------------------------------------------
(* similarity and extract_type_components (app.py 101-166).                *)

VALID_SUFFIXES ==
    << "E180", "E180ESC", "Q180", "E272", "Q272",
       "E366", "Q366", "EI89", "QI89",
       "NREEDV", "MATT", "GRY", "P621", "BRZ" >>

Min(a, b) == IF a <= b THEN a ELSE b

\* sum(1 for x, y in zip(a.upper(), b.upper()) if x == y)
similarity(a, b) ==
    LET ua == Upper(a)
        ub == Upper(b)
    IN  Cardinality({i \in 1..Min(Len(ua), Len(ub)) : Ch(ua, i) = Ch(ub, i)})

\* raw.replace("\r", "")
RemoveCR(s) == MapRange(s, 1, Len(s), "no_cr")

\* str.split("\n")
RECURSIVE SplitLines(_)
SplitLines(s) ==
    LET k == FindFrom(s, "\n", 1)
    IN  IF k = 0 THEN <<s>>
        ELSE <<Slice(s, 1, k)>> \o SplitLines(Slice(s, k + 1, Len(s) + 1))

\* re.sub(r"\s+", " ", t)
RECURSIVE CollapseFrom(_, _)
CollapseFrom(t, i) ==
    LET hits == {k \in i..Len(t) : Ch(t, k) \in Whitespace}
    IN  IF hits = {} THEN Slice(t, i, Len(t) + 1)
        ELSE LET k == CHOOSE k \in hits : \A h \in hits : k <= h
             IN  Slice(t, i, k) \o " " \o CollapseFrom(t, SkipClass(t, k, Whitespace))

CollapseWs(t) == CollapseFrom(t, 1)

\* re.sub(r"C\s*L\s*x", "CLx", t) for x = T, A
\* C\s*L\s*x matched at i: the index of the matched x, 0 if no match
JoinCLEnd(t, i, x) ==
    LET j == SkipClass(t, i + 1, Whitespace)
        k == SkipClass(t, j + 1, Whitespace)
    IN  IF Ch(t, i) = "C" /\ Ch(t, j) = "L" /\ Ch(t, k) = x THEN k ELSE 0

RECURSIVE JoinCLFrom(_, _, _)
JoinCLFrom(t, i, x) ==
    LET hits == {k \in i..Len(t) : JoinCLEnd(t, k, x) # 0}
    IN  IF hits = {} THEN Slice(t, i, Len(t) + 1)
        ELSE LET k == CHOOSE k \in hits : \A h \in hits : k <= h
             IN  Slice(t, i, k) \o "CL" \o x \o JoinCLFrom(t, JoinCLEnd(t, k, x) + 1, x)

JoinCL(t, x) == JoinCLFrom(t, 1, x)

\* str.split(): the maximal runs of non-whitespace
RECURSIVE SplitWsFrom(_, _)
SplitWsFrom(t, i) ==
    LET b == SkipClass(t, i, Whitespace)
    IN  IF b > Len(t) THEN <<>>
        ELSE LET e == CHOOSE e \in b..Len(t) :
                        /\ \A k \in b..e : Ch(t, k) \notin Whitespace
                        /\ (e = Len(t) \/ Ch(t, e + 1) \in Whitespace)
             IN  <<Slice(t, b, e + 1)>> \o SplitWsFrom(t, e + 1)

SplitWs(t) == SplitWsFrom(t, 1)

\* str.replace(old, "", 1)
RemoveFirst(t, old) ==
    LET k == IF old = "" THEN 0 ELSE FindFrom(t, old, 1)
    IN  IF k = 0 THEN t ELSE Slice(t, 1, k) \o Slice(t, k + Len(old), Len(t) + 1)

\* lines 115-119: index of the first line containing "cut>", 0 for None
CutIndex(lines) ==
    LET hits == {i \in 1..Len(lines) : Contains(Lower(lines[i]), "cut>")}
    IN  IF hits = {} THEN 0 ELSE CHOOSE i \in hits : \A k \in hits : i <= k

\* lines 124-128: index of the next non-empty line after cut_i, 0 if none
TypeLineIndex(lines, cut_i) ==
    LET hits == {j \in (cut_i + 1)..Len(lines) : Strip(lines[j]) # ""}
    IN  IF cut_i = 0 \/ hits = {} THEN 0 ELSE CHOOSE j \in hits : \A k \in hits : j <= k

\* lines 134-139
NormalizeTypeLine(type_line) ==
    JoinCL(JoinCL(CollapseWs(repair_prefix(type_line)), "T"), "A")

\* lines 149-156: the first dictionary entry of maximal similarity to p.upper()
RECURSIVE BestFrom(_, _, _, _)
BestFrom(up, k, best, best_score) ==
    IF k > Len(VALID_SUFFIXES) THEN [best |-> best, score |-> best_score]
    ELSE LET sc == similarity(up, VALID_SUFFIXES[k])
         IN  IF sc > best_score
             THEN BestFrom(up, k + 1, VALID_SUFFIXES[k], sc)
             ELSE BestFrom(up, k + 1, best, best_score)

BestSuffix(p) == BestFrom(Upper(p), 1, Upper(p), -1)

\* lines 147-158 with the threshold of line 157 as a parameter
RECURSIVE TintFrom(_, _, _, _)
TintFrom(parts, k, cur, threshold) ==
    IF k > Len(parts) THEN cur
    ELSE LET b == BestSuffix(parts[k])
         IN  TintFrom(parts, k + 1, IF b.score >= threshold THEN b.best ELSE cur, threshold)

\* a bug: the threshold of line 157 off by one
TintOfThresholdOne(parts) == TintFrom(parts, 1, "", 1)

\* what section 4.3 step 4 of the specification describes: the entry of the
\* highest score over all tokens, the first reached on ties, if that score >= 2
RECURSIVE GlobalBestFrom(_, _, _, _)
GlobalBestFrom(parts, k, cur, cur_score) ==
    IF k > Len(parts) THEN cur
    ELSE LET b == BestSuffix(parts[k])
         IN  IF b.score >= 2 /\ b.score > cur_score
             THEN GlobalBestFrom(parts, k + 1, b.best, b.score)
             ELSE GlobalBestFrom(parts, k + 1, cur, cur_score)

TintOfGlobalBest(parts) == GlobalBestFrom(parts, 1, "", -1)

\* lines 146-158
TintOf(parts) == TintFrom(parts, 1, "", 2)

\* lines 160-164
GlassTypeOf(t, thick, tnt) ==
    IF thick # "" /\ tnt # ""
    THEN Strip(RemoveFirst(RemoveFirst(t, thick), tnt))
    ELSE ""

NoComponents == [thickness |-> "", glass_type |-> "", tint |-> ""]

extract_type_components(rawtext) ==
    LET lines == SplitLines(RemoveCR(rawtext))
        cut_i == CutIndex(lines)
        tl_i  == TypeLineIndex(lines, cut_i)
    IN  IF cut_i = 0 \/ tl_i = 0 THEN NoComponents
        ELSE LET t     == NormalizeTypeLine(Strip(lines[tl_i]))
                 parts == SplitWs(t)
                 thick == IF parts # <<>> THEN parts[1] ELSE ""
                 tnt   == TintOf(parts)
             IN  [thickness |-> thick, glass_type |-> GlassTypeOf(t, thick, tnt), tint |-> tnt]

----------------------------------------------------------------------------
(* extract_size (app.py 172-201).  A match is <<group 1, group 2>>, no     *)
(* match is <<>>.                                                          *)

\* [xX ]
SizeSep == {"x", "X", " "}

\* raw.replace("\n", " ")
NewlinesToSpaces(s) == MapRange(s, 1, Len(s), "nl_to_space")

\* \d{1,4}\s*\d+\/\d+ matched at i: the index of its last character, 0 if
\* no match.  Either the first run of digits is split between \d{1,4} and
\* \d+ and the "/" follows it, or the run (of at most 4) is \d{1,4} and
\* whitespace and a second run precede the "/".  The last \d+ can give back
\* nothing: whatever follows the group starts with a non-digit.
FracEnd(s, i) ==
    LET p == SkipClass(s, i, Digits)
    IN  IF p = i THEN 0
        ELSE IF Ch(s, p) = "/"
        THEN IF p - i >= 2 /\ Ch(s, p + 1) \in Digits
             THEN SkipClass(s, p + 1, Digits) - 1 ELSE 0
        ELSE IF p - i <= 4 /\ Ch(s, p) \in Whitespace
        THEN LET q == SkipClass(s, p, Whitespace)
                 r == SkipClass(s, q, Digits)
             IN  IF r > q /\ Ch(s, r) = "/" /\ Ch(s, r + 1) \in Digits
                 THEN SkipClass(s, r + 1, Digits) - 1 ELSE 0
        ELSE 0

\* 1) (\d{1,4}\s*\d+\/\d+)[xX ]+(\d{1,4}\s*\d+\/\d+)
FracFracAt(s, i) ==
    LET e1 == FracEnd(s, i)
        j  == SkipClass(s, e1 + 1, SizeSep)
        e2 == FracEnd(s, j)
    IN  IF e1 # 0 /\ j > e1 + 1 /\ e2 # 0
        THEN <<Slice(s, i, e1 + 1), Slice(s, j, e2 + 1)>> ELSE <<>>

\* 2) (\d{1,4}\s*\d+\/\d+)[xX ]+(\d{1,4})\b
FracWholeAt(s, i) ==
    LET e1 == FracEnd(s, i)
        j  == SkipClass(s, e1 + 1, SizeSep)
        p  == SkipClass(s, j, Digits)
    IN  IF e1 # 0 /\ j > e1 + 1 /\ p > j /\ p - j <= 4 /\ ~IsWord(Ch(s, p))
        THEN <<Slice(s, i, e1 + 1), Slice(s, j, p)>> ELSE <<>>

\* 3) (\d{1,4})[xX ]+(\d{1,4}\s*\d+\/\d+)
WholeFracAt(s, i) ==
    LET p  == SkipClass(s, i, Digits)
        j  == SkipClass(s, p, SizeSep)
        e2 == FracEnd(s, j)
    IN  IF p > i /\ p - i <= 4 /\ j > p /\ e2 # 0
        THEN <<Slice(s, i, p), Slice(s, j, e2 + 1)>> ELSE <<>>

\* 4) (\d{1,4})\s*[xX]\s*(\d{1,4})
WholeWholeAt(s, i) ==
    LET p == SkipClass(s, i, Digits)
        q == SkipClass(s, p, Whitespace)
        r == SkipClass(s, q + 1, Whitespace)
        e == Min(SkipClass(s, r, Digits), r + 4)
    IN  IF p > i /\ p - i <= 4 /\ Ch(s, q) \in {"x", "X"} /\ e > r
        THEN <<Slice(s, i, p), Slice(s, r, e)>> ELSE <<>>

\* 5) \b(\d{1,4})\s+(\d{1,4})\b
InferredAt(s, i) ==
    LET p == SkipClass(s, i, Digits)
        q == SkipClass(s, p, Whitespace)
        r == SkipClass(s, q, Digits)
    IN  IF /\ ~IsWord(Ch(s, i - 1)) /\ p > i /\ p - i <= 4
           /\ q > p /\ r > q /\ r - q <= 4 /\ ~IsWord(Ch(s, r))
        THEN <<Slice(s, i, p), Slice(s, q, r)>> ELSE <<>>

\* re.search: the match at the leftmost index that has one
SizeMatchAt(s, i, rule) ==
    CASE rule = 1 -> FracFracAt(s, i)
      [] rule = 2 -> FracWholeAt(s, i)
      [] rule = 3 -> WholeFracAt(s, i)
      [] rule = 4 -> WholeWholeAt(s, i)
      [] OTHER    -> InferredAt(s, i)

SizeSearch(s, rule) ==
    LET hits == {i \in 1..Len(s) : SizeMatchAt(s, i, rule) # <<>>}
    IN  IF hits = {} THEN <<>>
        ELSE SizeMatchAt(s, CHOOSE i \in hits : \A k \in hits : i <= k, rule)

RECURSIVE SizeFromRule(_, _)
SizeFromRule(text, rule) ==
    IF rule > 5 THEN ""
    ELSE LET m == SizeSearch(text, rule)
         IN  IF m # <<>> THEN Strip(m[1]) \o " x " \o Strip(m[2])
             ELSE SizeFromRule(text, rule + 1)

extract_size(rawtext) == SizeFromRule(CollapseWs(NewlinesToSpaces(rawtext)), 1)

----------------------------------------------------------------------------
(* extract_tag and extract_po (app.py 207-217).                            *)

\* \b\d{6}(?:[-.,]\d+)?\b matched at i: the matched text, "" if no match
TagAt(s, i) ==
    LET p == SkipClass(s, i, Digits)
        e == SkipClass(s, p + 1, Digits)
    IN  IF ~IsWord(Ch(s, i - 1)) /\ p = i + 6
        THEN IF Ch(s, p) \in {"-", ".", ","} /\ e > p + 1 /\ ~IsWord(Ch(s, e))
             THEN Slice(s, i, e)
             ELSE IF ~IsWord(Ch(s, p)) THEN Slice(s, i, p) ELSE ""
        ELSE ""

extract_tag(rawtext) ==
    LET hits == {i \in 1..Len(rawtext) : TagAt(rawtext, i) # ""}
    IN  IF hits = {} THEN ""
        ELSE TagAt(rawtext, CHOOSE i \in hits : \A k \in hits : i <= k)

\* \b\d{3,6}-\d{3}\b matched at i
PoAt(s, i) ==
    LET p == SkipClass(s, i, Digits)
    IN  IF /\ ~IsWord(Ch(s, i - 1)) /\ p - i >= 3 /\ p - i <= 6 /\ Ch(s, p) = "-"
           /\ SkipClass(s, p + 1, Digits) >= p + 4 /\ ~IsWord(Ch(s, p + 4))
        THEN Slice(s, i, p + 4) ELSE ""

extract_po(rawtext) ==
    LET hits == {i \in 1..Len(rawtext) : PoAt(rawtext, i) # ""}
    IN  IF hits = {} THEN ""
        ELSE PoAt(rawtext, CHOOSE i \in hits : \A k \in hits : i <= k)

----------------------------------------------------------------------------
(* The state outside a specification's own variables stays as constructed. *)

IdleRepair == rpc = "idle" /\ rin = "" /\ rout1 = "" /\ rout2 = ""

IdleExtract ==
    /\ pc = "idle" /\ raw = "" /\ ocr_ok = TRUE
    /\ thickness = "" /\ glass_type = "" /\ tint = ""
    /\ size = "" /\ tag = "" /\ po = ""

\* app.py 38-45
InitSession ==
    /\ batch = <<>> /\ added_keys = {} /\ task_queue = <<>>
    /\ widgets = [mode |-> "Take Photo", photos |-> <<>>]
    /\ handed = <<>> /\ next_id = 1
    /\ last_run = [click |-> "none", sends |-> 0, photos |-> 0, send_button |-> FALSE]

----------------------------------------------------------------------------
(* The prefix repairer applied once and twice to an input string.          *)

MaxLen == 4

RepairAlphabet == {"3", "9", "1", "4", "5", "7", " ", "-", "_", "."}

RECURSIVE StringsUpTo(_)
StringsUpTo(n) ==
    IF n = 0 THEN {""}
    ELSE LET shorter == StringsUpTo(n - 1)
         IN  shorter \cup {s \o c : s \in shorter, c \in RepairAlphabet}

\* the strings the specification names, and the separators the alphabet lacks
NamedRepairInputs ==
    { "339000", "3.9", "3.1", "4.7", "5.7", "39 31 47 57", "3/9 4:7 5,7",
      "3-9 3-9", "339 3 9", "TAG 172819-39", "3 9 CLT Q180" }

RepairInputs == StringsUpTo(MaxLen) \cup NamedRepairInputs

InitRepair ==
    /\ rpc = "start" /\ rin \in RepairInputs /\ rout1 = "" /\ rout2 = ""
    /\ IdleExtract /\ InitSession

RepairOnce ==
    /\ rpc = "start"
    /\ rout1' = repair_prefix(rin)
    /\ rpc' = "once"
    /\ UNCHANGED <<rin, rout2, varsExtract, varsSession>>

RepairTwice ==
    /\ rpc = "once"
    /\ rout2' = repair_prefix(rout1)
    /\ rpc' = "twice"
    /\ UNCHANGED <<rin, rout1, varsExtract, varsSession>>

NextRepair == RepairOnce \/ RepairTwice

SpecRepair == InitRepair /\ [][NextRepair]_vars

\* the maximal runs of digits of length >= 3, left to right
RECURSIVE LongDigitRunsFrom(_, _)
LongDigitRunsFrom(s, i) ==
    LET starts == {k \in i..Len(s) : Ch(s, k) \in Digits}
    IN  IF starts = {} THEN <<>>
        ELSE LET b == CHOOSE k \in starts : \A h \in starts : k <= h
                 e == SkipClass(s, b, Digits)
             IN  (IF e - b >= 3 THEN <<Slice(s, b, e)>> ELSE <<>>)
                   \o LongDigitRunsFrom(s, e)

LongDigitRuns(s) == LongDigitRunsFrom(s, 1)

CanonicalPrefixes == {"3.1", "3.9", "4.7", "5.7"}

\* C5: repair_prefix is idempotent: repairing the repaired string changes
\* nothing, the canonical tokens 3.1, 3.9, 4.7, 5.7 are left as they are, and
\* none of the twelve passes matches anything in a repaired string.
C5_RepairIdempotent ==
    /\ rpc = "twice" => rout2 = rout1
    /\ rpc # "start" /\ rin \in CanonicalPrefixes => rout1 = rin
    /\ rpc # "start" =>
         \A k \in 1..Len(PrefixPatterns) : ReSubPrefix(rout1, PrefixPatterns[k]) = rout1

\* a malformed spelling was rewritten, and the second application ran
C5_Witness == rpc = "twice" /\ rout1 # rin /\ rout2 = rout1

\* C6: every maximal run of three or more digits of the input is in the
\* output unchanged (and no new one appears); "339000" is mapped to itself.
C6_DigitRunsUntouched ==
    rpc # "start" =>
        /\ LongDigitRuns(rout1) = LongDigitRuns(rin)
        /\ rin = "339000" => rout1 = "339000"

\* an input with a long digit run, in which a spelling elsewhere was rewritten
C6_Witness == rpc = "once" /\ LongDigitRuns(rin) # <<>> /\ rout1 # rin

----------------------------------------------------------------------------
(* One iteration of the Send Batch loop (app.py 336-341): ocr_raw, then    *)
(* the four extractors on its result.                                      *)

MaxLines == 3

MaxTokens == 3

\* lines of a label as the OCR model may transcribe them
LineVocab ==
    << "", "Cut>", "3 9 CLT Q180", "42 85", "42 5/16 x 85 7/16",
       "TAG 172819", "ORDER 35789-000", "WO: 2024 10" >>

\* tokens of a type line
TokenVocab == << "3.9", "3", "9", "CLT", "Q18O", "E2", "E18", "Q" >>

\* the transcript of section 8 of the specification
EndToEndTranscript ==
    "ORDER 35789-000\ncut>\n3.9 CLT Q18O\n42 5/16 x 85 7/16\nTAG 172819"

RECURSIVE JoinedUpTo(_, _, _)
\* the sequences of at most n members of vocab, joined by sep
JoinedUpTo(vocab, sep, n) ==
    IF n = 0 THEN {}
    ELSE LET shorter == JoinedUpTo(vocab, sep, n - 1)
         IN  {vocab[k] : k \in 1..Len(vocab)} \cup shorter
               \cup {t \o sep \o vocab[k] : t \in shorter, k \in 1..Len(vocab)}

LineTranscripts == JoinedUpTo(LineVocab, "\n", MaxLines)

TypeTranscripts == {"cut>\n" \o t : t \in JoinedUpTo(TokenVocab, " ", MaxTokens)}

\* r.output_text of a successful call
OcrOutputs == LineTranscripts \cup TypeTranscripts \cup {EndToEndTranscript, ""}

\* str(e) of a failed call: the text of the client library's exception
OcrErrors ==
    { "Connection error.",
      "Request timed out.",
      "Error code: 429 - Rate limit reached: Limit 200000, Used 199500" }

InitExtract ==
    /\ pc = "ocr" /\ raw = "" /\ ocr_ok = TRUE
    /\ thickness = "" /\ glass_type = "" /\ tint = ""
    /\ size = "" /\ tag = "" /\ po = ""
    /\ IdleRepair /\ InitSession

\* ocr_raw, line 78
OcrRawReturns ==
    /\ pc = "ocr"
    /\ \E text \in OcrOutputs : raw' = Strip(text)
    /\ ocr_ok' = TRUE
    /\ pc' = "type"
    /\ UNCHANGED <<thickness, glass_type, tint, size, tag, po, varsRepair, varsSession>>

\* ocr_raw, lines 79-80
OcrRawFails ==
    /\ pc = "ocr"
    /\ \E e \in OcrErrors : raw' = "OCR_ERROR: " \o e
    /\ ocr_ok' = FALSE
    /\ pc' = "type"
    /\ UNCHANGED <<thickness, glass_type, tint, size, tag, po, varsRepair, varsSession>>

\* line 338
ExtractTypeComponents ==
    /\ pc = "type"
    /\ LET c == extract_type_components(raw)
       IN  /\ thickness' = c.thickness
           /\ glass_type' = c.glass_type
           /\ tint' = c.tint
    /\ pc' = "size"
    /\ UNCHANGED <<raw, ocr_ok, size, tag, po, varsRepair, varsSession>>

\* line 339
ExtractSize ==
    /\ pc = "size"
    /\ size' = extract_size(raw)
    /\ pc' = "tag"
    /\ UNCHANGED <<raw, ocr_ok, thickness, glass_type, tint, tag, po, varsRepair, varsSession>>

\* line 340
ExtractTag ==
    /\ pc = "tag"
    /\ tag' = extract_tag(raw)
    /\ pc' = "po"
    /\ UNCHANGED <<raw, ocr_ok, thickness, glass_type, tint, size, po, varsRepair, varsSession>>

\* line 341
ExtractPo ==
    /\ pc = "po"
    /\ po' = extract_po(raw)
    /\ pc' = "done"
    /\ UNCHANGED <<raw, ocr_ok, thickness, glass_type, tint, size, tag, varsRepair, varsSession>>

NextExtract ==
    \/ OcrRawReturns
    \/ OcrRawFails
    \/ ExtractTypeComponents
    \/ ExtractSize
    \/ ExtractTag
    \/ ExtractPo

SpecExtract == InitExtract /\ [][NextExtract]_vars

----------------------------------------------------------------------------
(* The claims about the extractors, read off the transcript in raw.        *)

RawLines == SplitLines(RemoveCR(raw))

AnchorIndex == CutIndex(RawLines)

TypeIndex == TypeLineIndex(RawLines, AnchorIndex)

\* the tokens of the normalized type line
TypeParts ==
    IF TypeIndex = 0 THEN <<>>
    ELSE SplitWs(NormalizeTypeLine(Strip(RawLines[TypeIndex])))

SetMax(S) == CHOOSE m \in S : \A x \in S : x <= m

SetMin(S) == CHOOSE m \in S : \A x \in S : m <= x

\* the best similarity score of a token against the dictionary
Score(p) ==
    CHOOSE sc \in 0..Len(p) :
        /\ \E e \in 1..Len(VALID_SUFFIXES) : similarity(p, VALID_SUFFIXES[e]) = sc
        /\ \A e \in 1..Len(VALID_SUFFIXES) : similarity(p, VALID_SUFFIXES[e]) <= sc

\* the first dictionary entry that reaches the token's best score
FirstBestEntry(p) ==
    VALID_SUFFIXES[CHOOSE e \in 1..Len(VALID_SUFFIXES) :
                     /\ similarity(p, VALID_SUFFIXES[e]) = Score(p)
                     /\ \A f \in 1..(e - 1) : similarity(p, VALID_SUFFIXES[f]) < Score(p)]

ScoringTokens == {k \in 1..Len(TypeParts) : Score(TypeParts[k]) >= 2}

\* C1: the end-to-end scenario yields thickness 3.9, glass type CLT, tint
\* Q180, size 42 5/16 x 85 7/16, tag 172819 and PO 35789-000.
C1_EndToEnd ==
    pc = "done" /\ raw = EndToEndTranscript =>
        /\ thickness = "3.9" /\ glass_type = "CLT" /\ tint = "Q180"
        /\ size = "42 5/16 x 85 7/16" /\ tag = "172819" /\ po = "35789-000"

TagStarts == {i \in 1..Len(raw) : TagAt(raw, i) # ""}

PoStarts == {i \in 1..Len(raw) : PoAt(raw, i) # ""}

\* C2: with no line containing "cut>", thickness, glass type, tint and size
\* are empty, and tag and PO are the first tag-shaped and PO-shaped tokens
\* of the text when there are any.
C2_NoAnchor ==
    pc = "done" /\ AnchorIndex = 0 =>
        /\ thickness = "" /\ glass_type = "" /\ tint = "" /\ size = ""
        /\ TagStarts # {} => tag = TagAt(raw, SetMin(TagStarts))
        /\ PoStarts # {} => po = PoAt(raw, SetMin(PoStarts))

\* the leftmost token of the globally highest score
TopScoringToken ==
    SetMin({j \in ScoringTokens :
              \A i \in ScoringTokens : Score(TypeParts[i]) <= Score(TypeParts[j])})

\* the last token that scores >= 2
LastScoringToken == SetMax(ScoringTokens)

\* C3 as claimed: when some token scores >= 2, the tint is the best entry of
\* the token with the globally highest score, the leftmost such token on ties.
C3_GlobalBestTint ==
    pc = "done" /\ ScoringTokens # {} => tint = FirstBestEntry(TypeParts[TopScoringToken])

\* C3 as amended: when some token scores >= 2, the tint is the best entry
\* (first in dictionary order on ties) of the last token that scores >= 2,
\* whatever the scores of the tokens before it.
C3_LastScoringTokenTint ==
    pc = "done" /\ ScoringTokens # {} => tint = FirstBestEntry(TypeParts[LastScoringToken])

\* an earlier token scores higher than the last scoring token, whose entry
\* is nevertheless the tint
C3_Witness ==
    /\ pc = "done"
    /\ \E j, k \in ScoringTokens :
        /\ j < k /\ k = LastScoringToken
        /\ Score(TypeParts[j]) > Score(TypeParts[k])
        /\ FirstBestEntry(TypeParts[j]) # FirstBestEntry(TypeParts[k])
        /\ tint = FirstBestEntry(TypeParts[k])

\* a line the size scan is said to skip: a year 20xx, digits ":" digits,
\* or a work-order sentinel
LooksSkipped(line) ==
    \/ Contains(line, "WO:") \/ Contains(line, "WD-")
    \/ \E i \in 1..Len(line) :
        \/ /\ Ch(line, i) \in Digits /\ Ch(line, i + 1) = ":"
           /\ Ch(line, i + 2) \in Digits
        \/ /\ Slice(line, i, i + 2) = "20" /\ SkipClass(line, i, Digits) = i + 4
           /\ Ch(line, i - 1) \notin Digits

\* the size the claim describes: that of the first line after the type line
\* which is not skipped and encodes a pair
ClaimedSize ==
    LET cands == {j \in (TypeIndex + 1)..Len(RawLines) :
                    ~LooksSkipped(RawLines[j]) /\ extract_size(RawLines[j]) # ""}
    IN  IF cands = {} THEN "" ELSE extract_size(RawLines[SetMin(cands)])

\* C4: with an anchor line and a type line, the size comes only from the
\* first line strictly after the type line that encodes a pair and is not a
\* year, time or work-order line.
C4_SizeAfterTypeLine == pc = "done" /\ TypeIndex # 0 => size = ClaimedSize

\* C7: when every token of the normalized type line scores at most 1, tint
\* and glass type are empty and thickness is the first token.
C7_TintThreshold ==
    pc = "done" /\ TypeIndex # 0 /\ ScoringTokens = {} =>
        tint = "" /\ glass_type = "" /\ thickness = TypeParts[1]

\* a type line with a token that scores exactly 1, and no tint
C7_Witness ==
    /\ pc = "done" /\ TypeIndex # 0 /\ ScoringTokens = {}
    /\ \E k \in 1..Len(TypeParts) : Score(TypeParts[k]) = 1
    /\ tint = "" /\ thickness # ""

\* C8: for the empty transcript and for every "OCR_ERROR: <message>" that
\* ocr_raw returns, all six fields are empty.
C8_OcrFailureAllEmpty ==
    pc = "done" /\ (raw = "" \/ ~ocr_ok) =>
        /\ thickness = "" /\ glass_type = "" /\ tint = ""
        /\ size = "" /\ tag = "" /\ po = ""

----------------------------------------------------------------------------
(* The Streamlit script (app.py 265-361) run after run over                *)
(* st.session_state.  One action is one script run, started by one user    *)
(* interaction: a new value of the radio, the camera or the uploader       *)
(* (widgets keep their values from run to run; a widget that is not shown  *)
(* loses its value), or a click on a button.  A run ends early when        *)
(* Streamlit stops it at one of its st.* calls because the user acted      *)
(* again, or when preprocess raises on an upload that is no image.  The    *)
(* qty and reason of an entry come from the widgets in every run and       *)
(* decide nothing here; a task's csv_bytes is a function of its images.    *)
(* handed, next_id and last_run record the history: the tasks given to     *)
(* send_email with the outcome, the number of tasks enqueued so far plus   *)
(* one, and of the last run the button that took effect, the number of     *)
(* send_email calls and the page it left (how many "Remove Photo" buttons, *)
(* whether "Send Batch"): a click is on a button of that page.             *)

MaxTasks == 2

MaxFiles == 2

\* the image bytes a photo or an upload can hold
Images == {"a", "b"}

\* hashlib.sha256(img).hexdigest(): distinct bytes, distinct digests
Key(img) == "sha256:" \o img

RECURSIVE FilesUpTo(_)
FilesUpTo(n) ==
    IF n = 0 THEN {<<>>}
    ELSE LET shorter == FilesUpTo(n - 1)
         IN  shorter \cup {Append(fs, img) : fs \in shorter, img \in Images}

Clicks ==
    {[kind |-> "none", idx |-> 0], [kind |-> "send", idx |-> 0]}
        \cup {[kind |-> "remove", idx |-> i] : i \in 1..Cardinality(Images)}

\* lines 275-277 and 286-288
AddPhoto(st, img) ==
    IF Key(img) \notin st.keys
    THEN [batch |-> Append(st.batch, [img |-> img, key |-> Key(img)]),
          keys  |-> st.keys \cup {Key(img)}]
    ELSE st

\* lines 270-288: the camera photo, or the uploaded files in order
RECURSIVE AddAll(_, _)
AddAll(st, photos) ==
    IF photos = <<>> THEN st ELSE AddAll(AddPhoto(st, Head(photos)), Tail(photos))

\* lines 316-317
RemoveAt(st, idx) ==
    [batch |-> SubSeq(st.batch, 1, idx - 1) \o SubSeq(st.batch, idx + 1, Len(st.batch)),
     keys  |-> st.keys \ {st.batch[idx].key}]

\* lines 315-317: remove_list, already sorted in reverse
RECURSIVE RemovePhotos(_, _)
RemovePhotos(st, remove_list) ==
    IF remove_list = <<>> THEN st
    ELSE RemovePhotos(RemoveAt(st, Head(remove_list)), Tail(remove_list))

\* a bug: line 357 left out
ClearBatchKeepKeys(st) == [batch |-> <<>>, keys |-> st.keys]

\* lines 356-357
ClearBatch(st) == [batch |-> <<>>, keys |-> {}]

\* a bug: the head of the queue read without being removed
ProcessQueuePeek(queue) ==
    IF queue # <<>> THEN [queue |-> queue, sent |-> <<Head(queue)>>]
    ELSE [queue |-> queue, sent |-> <<>>]

\* process_queue, lines 256-259: the queue left, and the task given to send_email
ProcessQueue(queue) ==
    IF queue # <<>> THEN [queue |-> Tail(queue), sent |-> <<Head(queue)>>]
    ELSE [queue |-> queue, sent |-> <<>>]

\* the values of the radio (267) and of the camera (271) or the uploader (281)
WidgetInputs ==
    {[mode |-> "Take Photo", photos |-> <<>>]}
        \cup {[mode |-> "Take Photo", photos |-> <<img>>] : img \in Images}
        \cup {[mode |-> "Upload Photos", photos |-> fs] : fs \in FilesUpTo(MaxFiles)}

\* One run: w holds the widgets' values in this run, click is the button
\* that started the run (if one did), stop where the run ends, email_ok
\* whether send_email returns or raises.
Run(w, click, stop, email_ok) ==
    LET s1      == AddAll([batch |-> batch, keys |-> added_keys], w.photos)
        shown   == stop # "after_add" /\ s1.batch # <<>>
        removes == IF shown /\ click.kind = "remove" THEN <<click.idx>> ELSE <<>>
        s2      == RemovePhotos(s1, removes)
        sends   == /\ shown /\ click.kind = "send" /\ s2.batch # <<>>
                   /\ stop \notin {"after_remove", "preprocess_raises"}
        task    == [id |-> next_id,
                    images |-> [i \in 1..Len(s2.batch) |-> s2.batch[i].img]]
        queue1  == IF sends THEN Append(task_queue, task) ELSE task_queue
        s3      == IF sends THEN ClearBatch(s2) ELSE s2
        pq      == IF stop = "none" THEN ProcessQueue(queue1)
                   ELSE [queue |-> queue1, sent |-> <<>>]
    IN  /\ \/ w = widgets
           \/ click.kind = "none" /\ (w.mode = widgets.mode \/ w.photos = <<>>)
        /\ click.kind = "remove" =>
              click.idx <= last_run.photos /\ click.idx \in 1..Len(s1.batch)
        /\ click.kind = "send" =>
              last_run.send_button /\ s1.batch # <<>> /\ next_id <= MaxTasks
        /\ stop = "after_remove" => s2.batch # <<>>
        /\ stop = "after_send" => sends
        /\ stop = "preprocess_raises" => click.kind = "send" /\ w.mode = "Upload Photos"
        /\ email_ok \/ pq.sent # <<>>
        /\ widgets' = w
        /\ batch' = s3.batch
        /\ added_keys' = s3.keys
        /\ task_queue' = pq.queue
        /\ next_id' = IF sends THEN next_id + 1 ELSE next_id
        /\ handed' = handed \o [i \in 1..Len(pq.sent) |->
                                   [id |-> pq.sent[i].id, ok |-> email_ok]]
        /\ last_run' =
             [click |-> IF removes # <<>> THEN "remove"
                        ELSE IF sends THEN "send" ELSE "none",
              sends |-> Len(pq.sent),
              photos |-> IF stop = "after_add" THEN last_run.photos ELSE Len(s1.batch),
              send_button |-> IF stop = "after_add" THEN last_run.send_button
                              ELSE s2.batch # <<>>]

\* the script runs to its last line
ScriptRun ==
    /\ \E w \in WidgetInputs, click \in Clicks, email_ok \in BOOLEAN :
            Run(w, click, "none", email_ok)
    /\ UNCHANGED <<varsRepair, varsExtract>>

\* Streamlit stops the run at st.subheader (293), st.button (324) or
\* st.success (359)
ScriptRunStopped ==
    /\ \E w \in WidgetInputs, click \in Clicks,
          stop \in {"after_add", "after_remove", "after_send"} :
            Run(w, click, stop, TRUE)
    /\ UNCHANGED <<varsRepair, varsExtract>>

\* preprocess (336) raises in the Send Batch loop
ScriptRunRaises ==
    /\ \E w \in WidgetInputs, click \in Clicks :
            Run(w, click, "preprocess_raises", TRUE)
    /\ UNCHANGED <<varsRepair, varsExtract>>

Init == IdleRepair /\ IdleExtract /\ InitSession

Next == ScriptRun \/ ScriptRunStopped \/ ScriptRunRaises

Spec == Init /\ [][Next]_vars

\* C9: added_keys is exactly the set of the keys of the entries of batch,
\* and no two entries of batch have the same key or the same image.
C9_KeysMatchBatch ==
    /\ added_keys = {batch[i].key : i \in 1..Len(batch)}
    /\ \A i, j \in 1..Len(batch) :
         i # j => batch[i].key # batch[j].key /\ batch[i].img # batch[j].img
    /\ \A i \in 1..Len(batch) : batch[i].key = Key(batch[i].img)

\* a photo was removed from a batch of two, after an earlier batch was sent
C9_Witness ==
    /\ last_run.click = "remove" /\ Len(batch) = 1 /\ next_id > 1
    /\ added_keys = {batch[1].key}

HandedIds == [i \in 1..Len(handed) |-> handed[i].id]

QueueIds == [i \in 1..Len(task_queue) |-> task_queue[i].id]

\* C10: the tasks given to send_email so far, followed by those still
\* queued, are the tasks enqueued so far in the order of enqueueing, each
\* once; a run gives send_email at most one task.
C10_FifoAtMostOnce ==
    /\ HandedIds \o QueueIds = [i \in 1..(next_id - 1) |-> i]
    /\ last_run.sends <= 1

\* two tasks were queued; the last run gave send_email the older one, which
\* failed, and left the newer one queued
C10_Witness ==
    /\ last_run.sends = 1 /\ last_run.click # "send"
    /\ handed # <<>> /\ ~handed[Len(handed)].ok
    /\ task_queue # <<>> /\ task_queue[1].id = handed[Len(handed)].id + 1

====
